---- MODULE Spec2Model ----
(***************************************************************************)
(* Cookie-backed HTTP sessions (package sessions): the session record, the *)
(* request-scoped cache kept in the request's context, the commit          *)
(* (saveCtx), the accessors Get/List/Set/Delete/Reset/Flash/Flashes, and   *)
(* the buffered-response middleware TemplMiddleware with FlashesCtx.       *)
(*                                                                         *)
(* One client talks to one Session manager, one request at a time.  A      *)
(* request is served either directly (the code holds the real response     *)
(* writer w and the request r) or through TemplMiddleware (the handler     *)
(* holds the responseWrapper and r.WithContext(ctx)).                      *)
(***************************************************************************)
EXTENDS Integers, Sequences, FiniteSets, TLC

\* ------------------------------------------------------------------ bounds
\* Accessor calls per request: on the direct route, under the middleware, and
\* in a chain of MaxRequests requests; body bytes a handler writes.
MaxOps == 3
MaxTemplOps == 2
MaxChainOps == 1
MaxDeriveOps == 2
MaxRequests == 3
MaxBody == 1
MaxOther == 1

\* --------------------------------------------------------------- constants
defaultSessionName == "_session"
defaultMaxAge == 31536000
StatusOK == 200
StatusInternalServerError == 500

\* ------------------------------------------------------------ value domains
Keys == {"a", "b"}
\* Values gob can encode, and one it cannot (a func value held in the map).
EncodableValues == {"x"}
Values == EncodableValues \cup {"fn"}
\* Go's nil interface value: what a map read of a missing key yields.
Nil == "nil"
Bytes == {"h"}
StatusCodes == {StatusOK, StatusInternalServerError}
ReqVals == {"r", "r2"}

\* A Go map[string]interface{}: nil (the zero value) or allocated; m gives the
\* value held under each key, Nil when the key is missing.
NoEntries == [k \in Keys |-> Nil]
NilMap == [isnil |-> TRUE, m |-> NoEntries]
MakeMap == [isnil |-> FALSE, m |-> NoEntries]
\* A lookup that yields a value for a missing key.
MapGetDefault(mp, k) == IF mp.m[k] = Nil THEN "x" ELSE mp.m[k]
MapGet(mp, k) == mp.m[k]
\* Assignment to an entry of a nil map panics in Go; Valid is FALSE then.
MapPutValid(mp) == ~mp.isnil
\* An assignment that leaves k as the map's only entry.
MapPutOnly(mp, k, v) == [mp EXCEPT !.m = [NoEntries EXCEPT ![k] = v]]
MapPut(mp, k, v) == [mp EXCEPT !.m[k] = v]
\* delete() is a no-op on a nil map and on a missing key.
MapDelete(mp, k) == [mp EXCEPT !.m[k] = Nil]
\* A fresh make(map) filled by ranging over mp (a nil map ranges over nothing).
MapCopy(mp) == [isnil |-> FALSE, m |-> mp.m]
\* clear(mp): removes every entry, leaves a nil map nil.
MapClear(mp) == [mp EXCEPT !.m = NoEntries]

\* type session struct { Data, Flashes }: &session{} has both maps nil.
ZeroSession == [Data |-> NilMap, Flashes |-> NilMap]
\* An init that allocates nothing.
sessionInitNothing(s) == s
sessionInit(s) ==
    [Data |-> IF s.Data.isnil THEN MakeMap ELSE s.Data,
     Flashes |-> IF s.Flashes.isnil THEN MakeMap ELSE s.Flashes]
NewSession == [Data |-> MakeMap, Flashes |-> MakeMap]

\* ------------------------------------------------------------------- codec
\* securecookie over gob.  The encoded value carries the key that signed it,
\* the cookie name it was signed for and the gob body.  gob omits a struct
\* field holding a nil map and sends an allocated map even when it is empty.
Secret == "secret"
OtherSecret == "forged"
FieldNames == {"Data", "Flashes"}
GobFields(s) == {f \in FieldNames : ~s[f].isnil}
GobEncodable(s) ==
    \A f \in FieldNames : \A k \in Keys : s[f].m[k] \in EncodableValues \cup {Nil}
GobEncode(s) == [f \in GobFields(s) |-> s[f].m]
\* Decoding into &session{}: a field that was sent becomes an allocated map,
\* a field that was omitted stays nil.
GobDecode(body) ==
    [f \in FieldNames |->
        IF f \in DOMAIN body THEN [isnil |-> FALSE, m |-> body[f]] ELSE NilMap]

VARIABLES
    lim,        \* the run: [ops, reqs] bounds, opts the options New was given (if any)
    mgr,        \* the Session manager calls go through: [key, name, maxAge, quiet]
    pc,         \* "idle", "serve" (a request is in flight), "done"
    mw,         \* TemplMiddleware: "none", "handler", "flush", "failed", "returned",
                \* "skipped"
    nreq,       \* requests started so far
    nops,       \* accessor calls made for the request in flight
    jar,        \* the session cookie the client holds: <<>> or <<value>>
    cookie,     \* the session cookie of the request in flight: <<>> or <<value>>
    ctx,        \* request value -> address of the session in its context, 0 if none
    heap,       \* address -> session record
    nextAddr,   \* next address to allocate
    hdr,        \* Set-Cookie entries of the real writer's header map, in order
    wStatus,    \* status written to the real writer, 0 while none
    wSent,      \* the Set-Cookie entries that went out with the status line
    wBody,      \* body bytes written to the real writer
    mwSession,  \* TemplMiddleware's local `session`, 0 outside the middleware
    buf,        \* responseWrapper.b
    bufC,       \* responseWrapper.c
    panicked,   \* a Go panic was raised (assignment to an entry of a nil map)
    last,       \* the last accessor call: what it was given and what it returned
    tally,      \* the commits of the request in flight: how many, how many failed
    prev,       \* what the previous request left behind
    abs         \* the request's session as the sequence of calls made defines it
VARIABLES
    creq,       \* requests in flight at the same time: the key each sets -> its state
    cheap,      \* the sessions allocated for them, in one heap: address -> record
    cnext,      \* next address to allocate in cheap
    pool,       \* TemplMiddleware's sync.Pool: the buffers that were put back
    bufs        \* every buffer the pool's New has made, by number: its content
conc == <<creq, cheap, cnext, pool, bufs>>
vars == <<conc, lim, mgr, pc, mw, nreq, nops, jar, cookie, ctx, heap, nextAddr, hdr, wStatus,
          wSent, wBody, mwSession, buf, bufC, panicked, last, tally, prev, abs>>

\* s.sc.Encode and s.sc.Decode: the codec signs with, and accepts, the key of
\* the manager the call goes through.
EncodeOk(s) == GobEncodable(s)
Encode(name, s) == [key |-> mgr.key, name |-> name, body |-> GobEncode(s)]
DecodeOk(name, value) == value.key = mgr.key /\ value.name = name
Decode(value) == GobDecode(value.body)

\* A cookie signed with another key, holding data of its own.
ForgedCookie ==
    [key |-> OtherSecret, name |-> defaultSessionName,
     body |-> [f \in FieldNames |-> [k \in Keys |-> "x"]]]

\* ----------------------------------------------------------------- manager
\* New(secret, opts...): the last option bundle wins; an empty name and a zero
\* max-age take the defaults, -1 turns expiry off in the codec.
NoOptions == [Name |-> "", MaxAge |-> 0, Quiet |-> FALSE]
LastOption(opts) == IF Len(opts) = 0 THEN NoOptions ELSE opts[Len(opts)]
New(opts) ==
    LET o == LastOption(opts) IN
    [key |-> Secret,
     name |-> IF o.Name = "" THEN defaultSessionName ELSE o.Name,
     maxAge |-> IF o.MaxAge = 0 THEN defaultMaxAge
                ELSE IF o.MaxAge = -1 THEN 0 ELSE o.MaxAge,
     quiet |-> o.Quiet]

\* -------------------------------------------------------- request and cache
\* fromReq: the session in the request's context if there is one (hit), else a
\* fresh record: empty without a cookie or when decoding fails, decoded from
\* the cookie otherwise.  A fresh record takes the next address.
\* A decode step that drops whatever the cookie holds.
DecodeCookieEmpty == sessionInit(ZeroSession)
\* A decode step that takes the body of any cookie, whoever signed it.
DecodeCookieUnchecked ==
    IF cookie = <<>> THEN sessionInit(ZeroSession) ELSE Decode(cookie[1])
DecodeCookie ==
    IF cookie = <<>> THEN sessionInit(ZeroSession)
    ELSE IF DecodeOk(mgr.name, cookie[1]) THEN Decode(cookie[1])
    ELSE sessionInit(ZeroSession)
fromReq(rv) ==
    IF ctx[rv] # 0
    THEN [hit |-> TRUE, addr |-> ctx[rv], s |-> heap[ctx[rv]]]
    ELSE [hit |-> FALSE, addr |-> nextAddr, s |-> DecodeCookie]

\* What Get, List and Flashes return when called on rv in the current state.
GetValue(rv, k) == MapGet(fromReq(rv).s.Data, k)
ListValue(rv) == fromReq(rv).s.Data.m
FlashesValue(rv) == MapCopy(fromReq(rv).s.Flashes).m

\* What is still referenced after a step: the sessions held by a context or by
\* the middleware.  Everything else is garbage.
Collect(h, c, ms) ==
    [a \in DOMAIN h \cap ({c[v] : v \in DOMAIN c} \cup {ms}) |-> h[a]]

\* A session cookie that always takes the default name.
SessionCookieDefaultName(value) ==
    [Name |-> defaultSessionName, Value |-> value, MaxAge |-> defaultMaxAge,
     ExpiresIn |-> defaultMaxAge, Path |-> "/", HttpOnly |-> TRUE, Secure |-> TRUE]
\* The cookie saveCtx and TemplMiddleware put on the response.
SessionCookie(value) ==
    [Name |-> mgr.name, Value |-> value, MaxAge |-> defaultMaxAge,
     ExpiresIn |-> defaultMaxAge, Path |-> "/", HttpOnly |-> TRUE, Secure |-> TRUE]
\* Setting the header instead of adding to it: the new entry replaces the rest.
SetCookieReplace(h, c) == <<c>>
\* http.SetCookie: adds a Set-Cookie entry to the writer's header map.
SetCookie(h, c) == Append(h, c)

\* saveCtx that sets the cookie but leaves the request's context as it was.
saveCtxNoAttach(rv, addr, s) ==
    /\ UNCHANGED <<ctx, heap, nextAddr>>
    /\ hdr' = IF EncodeOk(s) THEN SetCookie(hdr, SessionCookie(Encode(mgr.name, s)))
              ELSE hdr

\* saveCtx that encodes first and attaches the session only when that succeeds.
saveCtxEncodeFirst(rv, addr, s) ==
    IF EncodeOk(s)
    THEN /\ ctx' = [ctx EXCEPT ![rv] = addr]
         /\ heap' = Collect([a \in DOMAIN heap \cup {addr} |->
                                 IF a = addr THEN s ELSE heap[a]], ctx', mwSession)
         /\ nextAddr' = IF addr = nextAddr THEN nextAddr + 1 ELSE nextAddr
         /\ hdr' = SetCookie(hdr, SessionCookie(Encode(mgr.name, s)))
    ELSE UNCHANGED <<ctx, heap, nextAddr, hdr>>

\* saveCtx(w, r, session): *r = *r.Clone(ctx with the session); then encode and,
\* unless encoding fails, set the cookie.
saveCtx(rv, addr, s) ==
    /\ ctx' = [ctx EXCEPT ![rv] = addr]
    /\ heap' = Collect([a \in DOMAIN heap \cup {addr} |->
                            IF a = addr THEN s ELSE heap[a]], ctx', mwSession)
    /\ nextAddr' = IF addr = nextAddr THEN nextAddr + 1 ELSE nextAddr
    /\ hdr' = IF EncodeOk(s) THEN SetCookie(hdr, SessionCookie(Encode(mgr.name, s)))
              ELSE hdr

\* ------------------------------------------------------------------ history
\* dec counts the s.sc.Decode calls fromReq has made for the request in flight:
\* one per call that finds no session in the context of a request with a cookie
\* (Reset and FlashesCtx do not go through fromReq).  retNil: the call returned
\* a nil map.  by: the names of the managers the request's calls went through.
NoCall == [op |-> "none", rv |-> "r", key |-> "a", val |-> Nil, ret |-> Nil,
           retMap |-> NoEntries, rec |-> 0, hit |-> FALSE, enc |-> "none", n |-> 0,
           dec |-> 0, retNil |-> FALSE, by |-> {}]
Decodes(op, f) ==
    IF op \notin {"Reset", "FlashesCtx"} /\ ~f.hit /\ cookie # <<>> THEN 1 ELSE 0
Call(op, rv, k, v, ret, retMap, f, enc) ==
    [op |-> op, rv |-> rv, key |-> k, val |-> v, ret |-> ret, retMap |-> retMap,
     rec |-> f.addr, hit |-> f.hit, enc |-> enc, n |-> Len(hdr),
     dec |-> last.dec + Decodes(op, f), retNil |-> FALSE,
     by |-> last.by \cup {mgr.name}]
EncResult(s) == IF EncodeOk(s) THEN "ok" ELSE "fail"

\* The request values code may hold: r, and r2 once it has been derived.
CanCall(rv) ==
    /\ pc = "serve"
    /\ nops < lim.ops
    /\ ~panicked
    /\ rv \in DOMAIN ctx
    /\ \/ mw = "none"
       \/ mw = "handler" /\ rv = "r2"
       \/ mw = "skipped" /\ rv = "r"
Frame == UNCHANGED <<conc, lim, mgr, pc, mw, nreq, jar, cookie, wStatus, wSent, wBody,
                     mwSession, buf, bufC, prev>>
ReadOnly == UNCHANGED <<ctx, heap, nextAddr, hdr, panicked, tally>>
\* wh: the code of the handler's last WriteHeader call on the wrapper, 0 if none.
NoTally == [commits |-> 0, fails |-> 0, rv |-> "r", ctxOnly |-> FALSE, wh |-> 0]
Committed(rv, s) ==
    tally' = [tally EXCEPT !.commits = @ + 1, !.rv = rv,
                           !.fails = IF EncodeOk(s) THEN @ ELSE @ + 1]

\* The session record of the request as the accessor table defines it: one
\* record per request, built from the cookie (empty when there is none or it
\* does not decode), changed by each mutating call in program order; with it,
\* what the last call has to return.
NoAbs == [data |-> NoEntries, flashes |-> NoEntries, ret |-> Nil, retMap |-> NoEntries]
AbsField(body, f) == IF f \in DOMAIN body THEN body[f] ELSE NoEntries
AbsFromCookie(c) ==
    IF c # <<>> /\ c[1].key = mgr.key /\ c[1].name = mgr.name
    THEN [NoAbs EXCEPT !.data = AbsField(c[1].body, "Data"),
                       !.flashes = AbsField(c[1].body, "Flashes")]
    ELSE NoAbs
AbsCall(op, k, v, attached) ==
    abs' = CASE op = "Get" -> [abs EXCEPT !.ret = abs.data[k], !.retMap = NoEntries]
             [] op = "List" -> [abs EXCEPT !.ret = Nil, !.retMap = abs.data]
             [] op = "Set" -> [abs EXCEPT !.data[k] = v, !.ret = Nil, !.retMap = NoEntries]
             [] op = "Delete" -> [abs EXCEPT !.data[k] = Nil, !.ret = abs.data[k],
                                            !.retMap = NoEntries]
             [] op = "Reset" -> NoAbs
             [] op = "Flash" -> [abs EXCEPT !.flashes[k] = v, !.ret = Nil,
                                           !.retMap = NoEntries]
             [] op = "Flashes" -> [abs EXCEPT !.flashes = NoEntries, !.ret = Nil,
                                             !.retMap = abs.flashes]
             [] op = "FlashesCtx" ->
                    IF attached
                    THEN [abs EXCEPT !.flashes = NoEntries, !.ret = Nil,
                                     !.retMap = abs.flashes]
                    ELSE [abs EXCEPT !.ret = Nil, !.retMap = NoEntries]

\* ---------------------------------------------------------------- accessors
\* Get that commits the record it read, as the mutating accessors do.
GetCommit(rv, k) ==
    /\ CanCall(rv)
    /\ LET f == fromReq(rv) IN
       /\ saveCtx(rv, f.addr, f.s)
       /\ Committed(rv, f.s)
       /\ last' = Call("Get", rv, k, Nil, MapGet(f.s.Data, k), NoEntries, f, "none")
    /\ AbsCall("Get", k, Nil, TRUE)
    /\ nops' = nops + 1
    /\ UNCHANGED panicked
    /\ Frame

Get(rv, k) ==
    /\ CanCall(rv)
    /\ LET f == fromReq(rv) IN
       last' = Call("Get", rv, k, Nil, MapGet(f.s.Data, k), NoEntries, f, "none")
    /\ AbsCall("Get", k, Nil, TRUE)
    /\ nops' = nops + 1
    /\ ReadOnly /\ Frame

List(rv) ==
    /\ CanCall(rv)
    /\ LET f == fromReq(rv) IN
       last' = Call("List", rv, "a", Nil, Nil, f.s.Data.m, f, "none")
    /\ AbsCall("List", "a", Nil, TRUE)
    /\ nops' = nops + 1
    /\ ReadOnly /\ Frame

\* A write to an entry of a nil map panics: the call never reaches saveCtx.
Panic(op, rv, k, v, f) ==
    /\ panicked' = TRUE
    /\ last' = Call(op, rv, k, v, Nil, NoEntries, f, "none")
    /\ UNCHANGED <<ctx, heap, nextAddr, hdr, tally>>

Set(rv, k, v) ==
    /\ CanCall(rv)
    /\ LET f == fromReq(rv)
           s == [f.s EXCEPT !.Data = MapPut(f.s.Data, k, v)]
       IN IF MapPutValid(f.s.Data)
          THEN /\ saveCtx(rv, f.addr, s)
               /\ Committed(rv, s)
               /\ last' = Call("Set", rv, k, v, Nil, NoEntries, f, EncResult(s))
               /\ UNCHANGED panicked
          ELSE Panic("Set", rv, k, v, f)
    /\ AbsCall("Set", k, v, TRUE)
    /\ nops' = nops + 1
    /\ Frame

\* Delete that returns the value and commits without removing the key.
DeleteKeep(rv, k) ==
    /\ CanCall(rv)
    /\ LET f == fromReq(rv) IN
       /\ saveCtx(rv, f.addr, f.s)
       /\ Committed(rv, f.s)
       /\ last' = Call("Delete", rv, k, Nil, MapGet(f.s.Data, k), NoEntries, f,
                       EncResult(f.s))
    /\ AbsCall("Delete", k, Nil, TRUE)
    /\ nops' = nops + 1
    /\ UNCHANGED panicked
    /\ Frame

Delete(rv, k) ==
    /\ CanCall(rv)
    /\ LET f == fromReq(rv)
           s == [f.s EXCEPT !.Data = MapDelete(f.s.Data, k)]
       IN /\ saveCtx(rv, f.addr, s)
          /\ Committed(rv, s)
          /\ last' = Call("Delete", rv, k, Nil, MapGet(f.s.Data, k), NoEntries, f,
                          EncResult(s))
    /\ AbsCall("Delete", k, Nil, TRUE)
    /\ nops' = nops + 1
    /\ UNCHANGED panicked
    /\ Frame

\* Reset that wipes the persistent data and keeps the flash data.
ResetDataOnly(rv) ==
    /\ CanCall(rv)
    /\ LET f == [hit |-> FALSE, addr |-> nextAddr,
                 s |-> [Data |-> MakeMap,
                        Flashes |-> sessionInit(fromReq(rv).s).Flashes]] IN
       /\ saveCtx(rv, f.addr, f.s)
       /\ Committed(rv, f.s)
       /\ last' = Call("Reset", rv, "a", Nil, Nil, NoEntries, f, EncResult(f.s))
    /\ AbsCall("Reset", "a", Nil, TRUE)
    /\ nops' = nops + 1
    /\ UNCHANGED panicked
    /\ Frame

Reset(rv) ==
    /\ CanCall(rv)
    /\ LET f == [hit |-> FALSE, addr |-> nextAddr, s |-> NewSession] IN
       /\ saveCtx(rv, f.addr, f.s)
       /\ Committed(rv, f.s)
       /\ last' = Call("Reset", rv, "a", Nil, Nil, NoEntries, f, EncResult(f.s))
    /\ AbsCall("Reset", "a", Nil, TRUE)
    /\ nops' = nops + 1
    /\ UNCHANGED panicked
    /\ Frame

Flash(rv, k, v) ==
    /\ CanCall(rv)
    /\ LET f == fromReq(rv)
           s == [f.s EXCEPT !.Flashes = MapPut(f.s.Flashes, k, v)]
       IN IF MapPutValid(f.s.Flashes)
          THEN /\ saveCtx(rv, f.addr, s)
               /\ Committed(rv, s)
               /\ last' = Call("Flash", rv, k, v, Nil, NoEntries, f, EncResult(s))
               /\ UNCHANGED panicked
          ELSE Panic("Flash", rv, k, v, f)
    /\ AbsCall("Flash", k, v, TRUE)
    /\ nops' = nops + 1
    /\ Frame

\* Flashes that returns the flashes and commits without clearing them.
FlashesNoClear(rv) ==
    /\ CanCall(rv)
    /\ LET f == fromReq(rv)
           values == MapCopy(f.s.Flashes)
       IN /\ saveCtx(rv, f.addr, f.s)
          /\ Committed(rv, f.s)
          /\ last' = Call("Flashes", rv, "a", Nil, Nil, values.m, f, EncResult(f.s))
    /\ AbsCall("Flashes", "a", Nil, TRUE)
    /\ nops' = nops + 1
    /\ UNCHANGED panicked
    /\ Frame

Flashes(rv) ==
    /\ CanCall(rv)
    /\ LET f == fromReq(rv)
           values == MapCopy(f.s.Flashes)
           s == [f.s EXCEPT !.Flashes = MakeMap]
       IN /\ saveCtx(rv, f.addr, s)
          /\ Committed(rv, s)
          /\ last' = Call("Flashes", rv, "a", Nil, Nil, values.m, f, EncResult(s))
    /\ AbsCall("Flashes", "a", Nil, TRUE)
    /\ nops' = nops + 1
    /\ UNCHANGED panicked
    /\ Frame

\* FlashesCtx that returns the flashes and leaves the live map as it is.
FlashesCtxNoClear(rv) ==
    /\ CanCall(rv)
    /\ heap' = heap
    /\ last' = Call("FlashesCtx", rv, "a", Nil, Nil,
                    IF ctx[rv] # 0 THEN MapCopy(heap[ctx[rv]].Flashes).m ELSE MakeMap.m,
                    [hit |-> ctx[rv] # 0, addr |-> ctx[rv]], "none")
    /\ tally' = [tally EXCEPT !.ctxOnly = TRUE]
    /\ AbsCall("FlashesCtx", "a", Nil, ctx[rv] # 0)
    /\ nops' = nops + 1
    /\ UNCHANGED <<ctx, nextAddr, hdr, panicked>>
    /\ Frame

\* FlashesCtx that returns a nil map when the context holds no session.
FlashesCtxNil(rv) ==
    /\ CanCall(rv)
    /\ IF ctx[rv] # 0
       THEN LET ss == heap[ctx[rv]]
                flashes == MapCopy(ss.Flashes)
            IN
            /\ heap' = [heap EXCEPT ![ctx[rv]].Flashes = MapClear(ss.Flashes)]
            /\ last' = [Call("FlashesCtx", rv, "a", Nil, Nil, flashes.m,
                             [hit |-> TRUE, addr |-> ctx[rv]], "none")
                            EXCEPT !.retNil = flashes.isnil]
       ELSE LET flashes == NilMap IN
            /\ heap' = heap
            /\ last' = [Call("FlashesCtx", rv, "a", Nil, Nil, flashes.m,
                             [hit |-> FALSE, addr |-> 0], "none")
                            EXCEPT !.retNil = flashes.isnil]
    /\ tally' = [tally EXCEPT !.ctxOnly = TRUE]
    /\ AbsCall("FlashesCtx", "a", Nil, ctx[rv] # 0)
    /\ nops' = nops + 1
    /\ UNCHANGED <<ctx, nextAddr, hdr, panicked>>
    /\ Frame

\* FlashesCtx that falls back on the request's cookie when the context holds
\* no session.
FlashesCtxDecode(rv) ==
    /\ CanCall(rv)
    /\ heap' = heap
    /\ last' = Call("FlashesCtx", rv, "a", Nil, Nil,
                    IF ctx[rv] # 0 THEN MapCopy(heap[ctx[rv]].Flashes).m
                    ELSE DecodeCookie.Flashes.m,
                    [hit |-> ctx[rv] # 0, addr |-> ctx[rv]], "none")
    /\ tally' = [tally EXCEPT !.ctxOnly = TRUE]
    /\ AbsCall("FlashesCtx", "a", Nil, ctx[rv] # 0)
    /\ nops' = nops + 1
    /\ UNCHANGED <<ctx, nextAddr, hdr, panicked>>
    /\ Frame

\* FlashesCtx(ctx): with a session in the context, a copy of its flashes, the
\* live map cleared in place; no commit.  Without one, an empty map.
FlashesCtx(rv) ==
    /\ CanCall(rv)
    /\ IF ctx[rv] # 0
       THEN LET ss == heap[ctx[rv]]
                flashes == MapCopy(ss.Flashes)
            IN
            /\ heap' = [heap EXCEPT ![ctx[rv]].Flashes = MapClear(ss.Flashes)]
            /\ last' = [Call("FlashesCtx", rv, "a", Nil, Nil, flashes.m,
                             [hit |-> TRUE, addr |-> ctx[rv]], "none")
                            EXCEPT !.retNil = flashes.isnil]
       ELSE LET flashes == MakeMap IN
            /\ heap' = heap
            /\ last' = [Call("FlashesCtx", rv, "a", Nil, Nil, flashes.m,
                             [hit |-> FALSE, addr |-> 0], "none")
                            EXCEPT !.retNil = flashes.isnil]
    /\ tally' = [tally EXCEPT !.ctxOnly = TRUE]
    /\ AbsCall("FlashesCtx", "a", Nil, ctx[rv] # 0)
    /\ nops' = nops + 1
    /\ UNCHANGED <<ctx, nextAddr, hdr, panicked>>
    /\ Frame

\* r.WithContext(ctx): a second request value whose context derives from r's,
\* made by code between the server and the handler.
Derive ==
    /\ pc = "serve" /\ mw = "none" /\ ~panicked
    /\ "r2" \notin DOMAIN ctx
    /\ ctx' = ctx @@ ("r2" :> ctx["r"])
    /\ UNCHANGED <<abs, conc, lim, mgr, pc, mw, nreq, nops, jar, cookie, heap, nextAddr, hdr,
                   wStatus, wSent, wBody, mwSession, buf, bufC, panicked, last,
                   tally, prev>>

\* ------------------------------------------------------------- real writer
\* http.ResponseWriter: the first WriteHeader sends the status line with the
\* header map as it is then; a Write before any WriteHeader sends 200 first.
HeaderWritten(code) ==
    IF wStatus # 0 THEN [status |-> wStatus, sent |-> wSent]
    ELSE [status |-> code, sent |-> hdr']
realWriteHeader(code) ==
    /\ wStatus' = HeaderWritten(code).status
    /\ wSent' = HeaderWritten(code).sent
    /\ wBody' = wBody
realWrite(data) ==
    /\ wStatus' = HeaderWritten(StatusOK).status
    /\ wSent' = HeaderWritten(StatusOK).sent
    /\ wBody' = wBody \o data


\* ---------------------------------------------------------------- other code
\* Other code serving the same request (a middleware, the handler itself)
\* sets a cookie of its own on the response, before anything was sent.
OtherCookieName == "_nop"
OtherCookies(h) == SelectSeq(h, LAMBDA c : c.Name = OtherCookieName)
OtherCookie ==
    /\ pc = "serve" /\ mw \in {"none", "handler"} /\ ~panicked
    /\ wStatus = 0
    /\ Len(OtherCookies(hdr)) < MaxOther
    /\ hdr' = SetCookie(hdr, [Name |-> OtherCookieName, Value |-> OtherCookieName])
    /\ UNCHANGED <<abs, conc, lim, mgr, pc, mw, nreq, nops, jar, cookie, ctx, heap, nextAddr,
                   wStatus, wSent, wBody, mwSession, buf, bufC, panicked, last,
                   tally, prev>>

\* --------------------------------------------------------- TemplMiddleware
\* Entry: decode the cookie into a new session (the request's context is not
\* consulted), take a buffer and reset it, wrap w with status 200, and hand the
\* handler r.WithContext(ctx with the session).
MwEnter ==
    /\ pc = "serve" /\ mw = "none" /\ ~panicked
    /\ "r2" \notin DOMAIN ctx
    /\ wStatus = 0
    /\ mw' = "handler"
    /\ mwSession' = nextAddr
    /\ nextAddr' = nextAddr + 1
    /\ heap' = heap @@ (nextAddr :> DecodeCookie)
    /\ ctx' = ctx @@ ("r2" :> nextAddr)
    /\ buf' = <<>>
    /\ bufC' = StatusOK
    /\ UNCHANGED <<abs, conc, lim, mgr, pc, nreq, nops, jar, cookie, hdr, wStatus, wSent, wBody,
                   panicked, last, tally, prev>>

\* A request whose path is among the excluded paths goes to the handler as it
\* came: w and r unchanged, nothing decoded, nothing attached, no buffer taken.
Paths == {"/", "/skip-me"}
ExcludedPaths == {"/skip-me"}
MwSkip ==
    /\ pc = "serve" /\ mw = "none" /\ ~panicked
    /\ "r2" \notin DOMAIN ctx
    /\ wStatus = 0
    /\ mw' = "skipped"
    /\ UNCHANGED <<abs, conc, lim, mgr, pc, nreq, nops, jar, cookie, ctx, heap, nextAddr,
                   hdr, wStatus, wSent, wBody, mwSession, buf, bufC, panicked, last,
                   tally, prev>>
\* TemplMiddleware(next, paths...) serving a request with URL path p.
TemplMiddlewarePaths(p) == IF p \in ExcludedPaths THEN MwSkip ELSE MwEnter

\* A wrapper whose Write goes straight to the real writer.
WrapperWriteThrough(b) ==
    /\ pc = "serve" /\ mw = "handler" /\ ~panicked
    /\ Len(buf) < MaxBody
    /\ buf' = Append(buf, b)
    /\ hdr' = hdr
    /\ realWrite(<<b>>)
    /\ UNCHANGED <<abs, conc, lim, mgr, pc, mw, nreq, nops, jar, cookie, ctx, heap, nextAddr,
                   mwSession, bufC, panicked, last, tally, prev>>

\* responseWrapper.Write and WriteHeader, called by the handler.
WrapperWrite(b) ==
    /\ pc = "serve" /\ mw = "handler" /\ ~panicked
    /\ Len(buf) < MaxBody
    /\ buf' = Append(buf, b)
    /\ UNCHANGED <<abs, conc, lim, mgr, pc, mw, nreq, nops, jar, cookie, ctx, heap, nextAddr, hdr,
                   wStatus, wSent, wBody, mwSession, bufC, panicked, last, tally,
                   prev>>
WrapperWriteHeader(code) ==
    /\ pc = "serve" /\ mw = "handler" /\ ~panicked
    /\ bufC' = code
    /\ tally' = [tally EXCEPT !.wh = code]
    /\ UNCHANGED <<abs, conc, lim, mgr, pc, mw, nreq, nops, jar, cookie, ctx, heap, nextAddr, hdr,
                   wStatus, wSent, wBody, mwSession, buf, panicked, last, prev>>

\* A finalize step that encodes but never sets the cookie.
MwFinalizeNoCookie ==
    /\ pc = "serve" /\ mw = "handler" /\ ~panicked
    /\ mw' = IF EncodeOk(heap[mwSession]) THEN "flush" ELSE "failed"
    /\ UNCHANGED <<abs, conc, lim, mgr, pc, nreq, nops, jar, cookie, ctx, heap, nextAddr, hdr,
                   wStatus, wSent, wBody, mwSession, buf, bufC, panicked, last, tally,
                   prev>>

\* The handler returned: encode the middleware's session; on failure return,
\* on success set the cookie through the wrapper (the real header map).
MwFinalize ==
    /\ pc = "serve" /\ mw = "handler" /\ ~panicked
    /\ LET s == heap[mwSession] IN
       IF EncodeOk(s)
       THEN /\ hdr' = SetCookie(hdr, SessionCookie(Encode(mgr.name, s)))
            /\ mw' = "flush"
       ELSE /\ hdr' = hdr
            /\ mw' = "failed"
    /\ UNCHANGED <<abs, conc, lim, mgr, pc, nreq, nops, jar, cookie, ctx, heap, nextAddr, wStatus,
                   wSent, wBody, mwSession, buf, bufC, panicked, last, tally, prev, abs>>

\* A flush that sends the default status whatever the wrapper captured.
MwFlushDefaultStatus ==
    /\ pc = "serve" /\ mw = "flush"
    /\ hdr' = hdr
    /\ wStatus' = HeaderWritten(StatusOK).status
    /\ wSent' = HeaderWritten(StatusOK).sent
    /\ wBody' = wBody \o buf
    /\ buf' = <<>>
    /\ mw' = "returned"
    /\ UNCHANGED <<abs, conc, lim, mgr, pc, nreq, nops, jar, cookie, ctx, heap, nextAddr,
                   mwSession, bufC, panicked, last, tally, prev>>

\* wrapper.Flush(): WriteHeader(rw.c) on the real writer, then the buffer is
\* drained into it; pool.Put(b).
MwFlush ==
    /\ pc = "serve" /\ mw = "flush"
    /\ hdr' = hdr
    /\ wStatus' = HeaderWritten(bufC).status
    /\ wSent' = HeaderWritten(bufC).sent
    /\ wBody' = wBody \o buf
    /\ buf' = <<>>
    /\ mw' = "returned"
    /\ UNCHANGED <<abs, conc, lim, mgr, pc, nreq, nops, jar, cookie, ctx, heap, nextAddr,
                   mwSession, bufC, panicked, last, tally, prev>>

\* ------------------------------------------------------ concurrent requests
\* Requests served at the same time by one manager and one TemplMiddleware
\* instance, each by its own goroutine; request i is the one that sets key i.
\* What they share is the manager, the Go heap and the middleware's pool.
IdleReq == [pc |-> "idle", templ |-> FALSE, cookie |-> <<>>, ctx |-> 0, mws |-> 0,
            hdr |-> <<>>, buf |-> 0, wrote |-> <<>>, body |-> <<>>, released |-> FALSE,
            setv |-> Nil, got |-> <<>>, seen |-> Nil]
\* The sequential part of the model stands still meanwhile.
Sequential == UNCHANGED <<lim, mgr, pc, mw, nreq, nops, jar, cookie, ctx, heap, nextAddr,
                          hdr, wStatus, wSent, wBody, mwSession, buf, bufC, panicked,
                          last, tally, prev, abs>>
\* An allocation that hands out the address of a session already in use.
CAllocReuse == IF DOMAIN cheap = {} THEN cnext ELSE CHOOSE a \in DOMAIN cheap : TRUE
\* &session{}: a new address.
CAlloc == cnext
Store(h, a, s) == [x \in DOMAIN h \cup {a} |-> IF x = a THEN s ELSE h[x]]
\* The record built from cookie c: decoded, or empty without one or on failure.
DecodeFrom(c) ==
    IF c = <<>> THEN sessionInit(ZeroSession)
    ELSE IF DecodeOk(mgr.name, c[1]) THEN Decode(c[1])
    ELSE sessionInit(ZeroSession)
\* fromReq for request i.
CfromReq(i) ==
    IF creq[i].ctx # 0
    THEN [addr |-> creq[i].ctx, s |-> cheap[creq[i].ctx]]
    ELSE [addr |-> CAlloc, s |-> DecodeFrom(creq[i].cookie)]
\* The cookies these requests carry: none, or one holding one key.
ConcInbound ==
    {<<>>} \cup {<<Encode(defaultSessionName,
                          [NewSession EXCEPT !.Data = MapPut(MakeMap, k, "x")])>> :
                k \in Keys}

\* Request i arrives, on the direct route or through the middleware.
CArrive(i, c, t) ==
    /\ creq[i].pc = "idle"
    /\ creq' = [creq EXCEPT ![i].pc = IF t THEN "enter" ELSE "handler",
                            ![i].cookie = c, ![i].templ = t]
    /\ UNCHANGED <<cheap, cnext, pool, bufs>>
    /\ Sequential
\* TemplMiddleware up to next.ServeHTTP: a new session from the cookie;
\* pool.Get() yields a buffer that was put back or a new one, b.Reset().
CEnter(i) ==
    /\ creq[i].pc = "enter"
    /\ \E b \in pool \cup {Len(bufs) + 1} :
          /\ pool' = pool \ {b}
          /\ bufs' = IF b > Len(bufs) THEN Append(bufs, <<>>)
                     ELSE [bufs EXCEPT ![b] = <<>>]
          /\ creq' = [creq EXCEPT ![i].pc = "handler", ![i].mws = CAlloc,
                                  ![i].ctx = CAlloc, ![i].buf = b]
    /\ cheap' = Store(cheap, CAlloc, DecodeFrom(creq[i].cookie))
    /\ cnext' = cnext + 1
    /\ Sequential
\* s.Set(w, r, i, v) in the handler of request i.
CSet(i, v) ==
    /\ creq[i].pc = "handler" /\ creq[i].setv = Nil
    /\ LET f == CfromReq(i)
           s == [f.s EXCEPT !.Data = MapPut(f.s.Data, i, v)]
       IN /\ cheap' = Store(cheap, f.addr, s)
          /\ cnext' = IF creq[i].ctx = 0 THEN cnext + 1 ELSE cnext
          /\ creq' = [creq EXCEPT ![i].ctx = f.addr, ![i].setv = v,
                                  ![i].hdr = IF EncodeOk(s)
                                             THEN Append(@, Encode(mgr.name, s))
                                             ELSE @]
    /\ UNCHANGED <<pool, bufs>>
    /\ Sequential
\* s.List(r) in the handler of request i.
CList(i) ==
    /\ creq[i].pc = "handler" /\ creq[i].got = <<>>
    /\ creq' = [creq EXCEPT ![i].got = <<CfromReq(i).s.Data.m>>,
                            ![i].seen = creq[i].setv]
    /\ UNCHANGED <<cheap, cnext, pool, bufs>>
    /\ Sequential
\* The handler of request i writes a byte that names the request: into the
\* wrapper's buffer under the middleware, to its real writer otherwise.
CWrite(i) ==
    /\ creq[i].pc = "handler" /\ Len(creq[i].wrote) < MaxBody
    /\ IF creq[i].templ
       THEN /\ bufs' = [bufs EXCEPT ![creq[i].buf] = Append(@, i)]
            /\ creq' = [creq EXCEPT ![i].wrote = Append(@, i)]
       ELSE /\ bufs' = bufs
            /\ creq' = [creq EXCEPT ![i].wrote = Append(@, i),
                                    ![i].body = Append(@, i)]
    /\ UNCHANGED <<cheap, cnext, pool>>
    /\ Sequential
\* The handler returned to the middleware: encode; on failure return.
CFinalize(i) ==
    /\ creq[i].pc = "handler" /\ creq[i].templ
    /\ LET s == cheap[creq[i].mws] IN
       creq' = IF EncodeOk(s)
               THEN [creq EXCEPT ![i].pc = "flush",
                                 ![i].hdr = Append(@, Encode(mgr.name, s))]
               ELSE [creq EXCEPT ![i].pc = "done"]
    /\ UNCHANGED <<cheap, cnext, pool, bufs>>
    /\ Sequential
\* wrapper.Flush() drains the buffer into the real writer; pool.Put(b).
CFlush(i) ==
    /\ creq[i].pc = "flush"
    /\ creq' = [creq EXCEPT ![i].pc = "done", ![i].released = TRUE,
                            ![i].body = @ \o bufs[creq[i].buf]]
    /\ bufs' = [bufs EXCEPT ![creq[i].buf] = <<>>]
    /\ pool' = pool \cup {creq[i].buf}
    /\ UNCHANGED <<cheap, cnext>>
    /\ Sequential
\* The handler of request i panics: the middleware has no deferred call and
\* no recover, so the panic leaves it at next.ServeHTTP.
CPanic(i) ==
    /\ creq[i].pc = "handler"
    /\ creq' = [creq EXCEPT ![i].pc = "panicked"]
    /\ UNCHANGED <<cheap, cnext, pool, bufs>>
    /\ Sequential
\* The handler of a request on the direct route returned.
CReturn(i) ==
    /\ creq[i].pc = "handler" /\ ~creq[i].templ
    /\ creq' = [creq EXCEPT ![i].pc = "done"]
    /\ UNCHANGED <<cheap, cnext, pool, bufs>>
    /\ Sequential

\* ------------------------------------------------------------------ client
\* The session cookie among Set-Cookie entries: a client keeps the last one.
SessionCookies(h) == SelectSeq(h, LAMBDA c : c.Name = mgr.name)
LastSessionCookie(h) ==
    IF SessionCookies(h) = <<>> THEN <<>>
    ELSE <<SessionCookies(h)[Len(SessionCookies(h))].Value>>

\* What a request leaves behind when it put a session cookie on the response
\* and every encode (the middleware's too) succeeded: the last session cookie
\* on the header map (emitted), the one its last call set (issued), the
\* session that call used as it is when the request ends, whether it went
\* through the middleware, whether FlashesCtx was called, and its last call
\* (onEntry: the call used the session the middleware attached at entry;
\* fresh: it found no session attached; first: it was the request's only call),
\* and the cookie the request presented when its only call returned flashes or
\* its path was excluded.  Nothing else is recorded otherwise.
NoPrev == [ok |-> FALSE, emitted |-> <<>>, issued |-> <<>>, s |-> <<>>,
           templ |-> FALSE, ctxOnly |-> FALSE, commits |-> FALSE,
           op |-> "none", key |-> "a", val |-> Nil, retMap |-> NoEntries,
           onEntry |-> FALSE, skipped |-> FALSE, presented |-> <<>>,
           fresh |-> FALSE, first |-> FALSE]
AllEncoded ==
    /\ tally.fails = 0 /\ mw # "failed" /\ ~panicked
    /\ tally.commits > 0 \/ mw = "returned"
EndSession ==
    IF tally.commits > 0 THEN heap[ctx[tally.rv]] ELSE heap[mwSession]

\* A request arrives with no session cookie, with the one the client holds, or
\* with one some other key signed.
NewRequest(c) ==
    /\ pc \in {"idle", "done"}
    /\ nreq < lim.reqs
    /\ cookie' = c
    /\ pc' = "serve"
    /\ mw' = "none"
    /\ nreq' = nreq + 1
    /\ nops' = 0
    /\ ctx' = ("r" :> 0)
    /\ heap' = <<>>
    /\ nextAddr' = 1
    /\ hdr' = <<>>
    /\ wStatus' = 0
    /\ wSent' = <<>>
    /\ wBody' = <<>>
    /\ mwSession' = 0
    /\ buf' = <<>>
    /\ bufC' = 0
    /\ panicked' = FALSE
    /\ last' = NoCall
    /\ tally' = NoTally
    /\ abs' = AbsFromCookie(c)
    /\ UNCHANGED <<conc, lim, mgr, jar, prev>>

\* The outermost handler returned: the server sends 200 and the headers if
\* nothing was sent yet; the client stores the last session cookie it got.
EndRequest ==
    /\ pc = "serve"
    /\ mw \in {"none", "failed", "returned", "skipped"}
    /\ pc' = "done"
    /\ hdr' = hdr
    /\ realWriteHeader(StatusOK)
    /\ jar' = IF LastSessionCookie(wSent') # <<>> /\ ~panicked
              THEN LastSessionCookie(wSent') ELSE jar
    /\ prev' = IF AllEncoded
               THEN [ok |-> TRUE, emitted |-> LastSessionCookie(hdr),
                     issued |-> IF last.enc = "ok" THEN <<hdr[last.n + 1].Value>>
                                ELSE <<>>,
                     s |-> <<EndSession>>, templ |-> mw = "returned",
                     ctxOnly |-> tally.ctxOnly, commits |-> tally.commits > 0,
                     op |-> last.op, key |-> last.key, val |-> last.val,
                     retMap |-> last.retMap,
                     onEntry |-> last.hit /\ last.rec = mwSession,
                     skipped |-> mw = "skipped",
                     presented |-> IF mw = "skipped" \/ (nops = 1 /\ last.retMap # NoEntries)
                                   THEN cookie ELSE <<>>,
                     fresh |-> ~last.hit,
                     first |-> nops = 1]
               ELSE IF mw = "skipped"
               THEN [NoPrev EXCEPT !.skipped = TRUE, !.presented = cookie,
                                   !.op = last.op, !.retMap = last.retMap,
                                   !.commits = tally.commits > 0]
               ELSE NoPrev
    /\ UNCHANGED <<abs, conc, lim, mgr, mw, nreq, nops, cookie, ctx, heap, nextAddr, mwSession,
                   buf, bufC, panicked, last, tally>>

\* Every session an accessor can have committed with success: both maps
\* allocated, every value encodable; and the cookie values they encode to.
IssuableSessions ==
    {[Data |-> [isnil |-> FALSE, m |-> d], Flashes |-> [isnil |-> FALSE, m |-> f]] :
        d \in [Keys -> EncodableValues \cup {Nil}],
        f \in [Keys -> EncodableValues \cup {Nil}]}
Inbound ==
    {<<>>, <<ForgedCookie>>}
        \cup {<<Encode(defaultSessionName, s)>> : s \in IssuableSessions}

InitWith(l) ==
    /\ lim = l
    /\ mgr = New(IF "opts" \in DOMAIN l THEN l.opts ELSE <<>>)
    /\ pc = "idle"
    /\ mw = "none"
    /\ nreq = 0
    /\ nops = 0
    /\ jar = <<>>
    /\ cookie = <<>>
    /\ ctx = ("r" :> 0)
    /\ heap = <<>>
    /\ nextAddr = 1
    /\ hdr = <<>>
    /\ wStatus = 0
    /\ wSent = <<>>
    /\ wBody = <<>>
    /\ mwSession = 0
    /\ buf = <<>>
    /\ bufC = 0
    /\ panicked = FALSE
    /\ last = NoCall
    /\ tally = NoTally
    /\ prev = NoPrev
    /\ abs = NoAbs
    /\ creq = [i \in Keys |-> IdleReq]
    /\ cheap = <<>>
    /\ cnext = 1
    /\ pool = {}
    /\ bufs = <<>>


\* One request served by a handler that holds w and r; the request carries any
\* cookie the manager can have issued, a forged one, or none.
Init == InitWith([ops |-> MaxOps, reqs |-> 1])
Next ==
    \/ \E c \in Inbound : NewRequest(c)
    \/ EndRequest
    \/ \E k \in Keys : Get("r", k)
    \/ List("r")
    \/ \E k \in Keys, v \in Values : Set("r", k, v)
    \/ \E k \in Keys : Delete("r", k)
    \/ Reset("r")
    \/ \E k \in Keys, v \in Values : Flash("r", k, v)
    \/ Flashes("r")
    \/ FlashesCtx("r")
Spec == Init /\ [][Next]_vars

\* One request served through TemplMiddleware.
InitTempl == InitWith([ops |-> MaxTemplOps, reqs |-> 1])
NextTempl ==
    \/ \E c \in Inbound : NewRequest(c)
    \/ MwEnter
    \/ \E k \in Keys : Get("r2", k)
    \/ List("r2")
    \/ \E k \in Keys, v \in Values : Set("r2", k, v)
    \/ \E k \in Keys : Delete("r2", k)
    \/ Reset("r2")
    \/ \E k \in Keys, v \in Values : Flash("r2", k, v)
    \/ Flashes("r2")
    \/ FlashesCtx("r2")
    \/ \E b \in Bytes : WrapperWrite(b)
    \/ \E c \in StatusCodes : WrapperWriteHeader(c)
    \/ MwFinalize
    \/ MwFlush
    \/ EndRequest
SpecTempl == InitTempl /\ [][NextTempl]_vars

\* A chain of requests by one client, each served directly or through the
\* middleware, each carrying the cookie the client holds, a forged one or none.
InitChain == InitWith([ops |-> MaxChainOps, reqs |-> MaxRequests])
NextChain ==
    \/ \E c \in {<<>>, jar, <<ForgedCookie>>} : NewRequest(c)
    \/ MwEnter
    \/ \E rv \in ReqVals : \E k \in Keys : Get(rv, k)
    \/ \E rv \in ReqVals : List(rv)
    \/ \E rv \in ReqVals : \E k \in Keys, v \in Values : Set(rv, k, v)
    \/ \E rv \in ReqVals : \E k \in Keys : Delete(rv, k)
    \/ \E rv \in ReqVals : Reset(rv)
    \/ \E rv \in ReqVals : \E k \in Keys, v \in Values : Flash(rv, k, v)
    \/ \E rv \in ReqVals : Flashes(rv)
    \/ \E rv \in ReqVals : FlashesCtx(rv)
    \/ MwFinalize
    \/ MwFlush
    \/ EndRequest
SpecChain == InitChain /\ [][NextChain]_vars

\* The same chain with handlers that only touch the flash data.
NextFlash ==
    \/ \E c \in {<<>>, jar, <<ForgedCookie>>} : NewRequest(c)
    \/ MwEnter
    \/ \E rv \in ReqVals : Reset(rv)
    \/ \E rv \in ReqVals : \E k \in Keys, v \in Values : Flash(rv, k, v)
    \/ \E rv \in ReqVals : Flashes(rv)
    \/ \E rv \in ReqVals : FlashesCtx(rv)
    \/ MwFinalize
    \/ MwFlush
    \/ EndRequest
SpecFlash == InitChain /\ [][NextFlash]_vars

\* A chain of requests by one client to a TemplMiddleware with excluded
\* paths; the handlers flash a message or read the flashes from the context.
NextSkip ==
    \/ \E c \in {<<>>, jar, <<ForgedCookie>>} : NewRequest(c)
    \/ \E p \in Paths : TemplMiddlewarePaths(p)
    \/ \E rv \in ReqVals : \E k \in Keys, v \in Values : Flash(rv, k, v)
    \/ \E rv \in ReqVals : FlashesCtx(rv)
    \/ MwFinalize
    \/ MwFlush
    \/ EndRequest
SpecSkip == InitChain /\ [][NextSkip]_vars

\* The same chain with a client that may also present again the cookie its
\* previous request presented.
NextReplay ==
    \/ \E c \in {<<>>, jar, cookie} : NewRequest(c)
    \/ MwEnter
    \/ \E rv \in ReqVals : \E k \in Keys, v \in Values : Flash(rv, k, v)
    \/ \E rv \in ReqVals : Flashes(rv)
    \/ \E rv \in ReqVals : FlashesCtx(rv)
    \/ MwFinalize
    \/ MwFlush
    \/ EndRequest
SpecReplay == InitChain /\ [][NextReplay]_vars

\* One request whose handlers sit behind code that derives a request value
\* with r.WithContext before calling them.
InitDerive == InitWith([ops |-> MaxDeriveOps, reqs |-> 1])
NextDerive ==
    \/ \E c \in Inbound : NewRequest(c)
    \/ Derive
    \/ \E rv \in ReqVals : \E k \in Keys : Get(rv, k)
    \/ \E rv \in ReqVals : List(rv)
    \/ \E rv \in ReqVals : \E k \in Keys, v \in Values : Set(rv, k, v)
    \/ \E rv \in ReqVals : \E k \in Keys : Delete(rv, k)
    \/ \E rv \in ReqVals : Reset(rv)
    \/ \E rv \in ReqVals : \E k \in Keys, v \in Values : Flash(rv, k, v)
    \/ \E rv \in ReqVals : Flashes(rv)
    \/ \E rv \in ReqVals : FlashesCtx(rv)
    \/ EndRequest
SpecDerive == InitDerive /\ [][NextDerive]_vars

\* One request that carries no cookie or one the codec rejects, served
\* directly, through the middleware, or by code before the middleware.
InitReject == InitWith([ops |-> MaxTemplOps, reqs |-> 1])
NextReject ==
    \/ \E c \in {<<>>, <<ForgedCookie>>} : NewRequest(c)
    \/ MwEnter
    \/ \E rv \in ReqVals : \E k \in Keys : Get(rv, k)
    \/ \E rv \in ReqVals : List(rv)
    \/ \E rv \in ReqVals : \E k \in Keys, v \in Values : Set(rv, k, v)
    \/ \E rv \in ReqVals : \E k \in Keys : Delete(rv, k)
    \/ \E rv \in ReqVals : Reset(rv)
    \/ \E rv \in ReqVals : \E k \in Keys, v \in Values : Flash(rv, k, v)
    \/ \E rv \in ReqVals : Flashes(rv)
    \/ \E rv \in ReqVals : FlashesCtx(rv)
    \/ MwFinalize
    \/ MwFlush
    \/ EndRequest
SpecReject == InitReject /\ [][NextReject]_vars

\* One request that carries any cookie a request can carry, served directly,
\* through the middleware, or by code before the middleware.
InitAny == InitWith([ops |-> MaxTemplOps, reqs |-> 1])
NextAny ==
    \/ \E c \in Inbound : NewRequest(c)
    \/ MwEnter
    \/ \E rv \in ReqVals : \E k \in Keys : Get(rv, k)
    \/ \E rv \in ReqVals : List(rv)
    \/ \E rv \in ReqVals : \E k \in Keys, v \in Values : Set(rv, k, v)
    \/ \E rv \in ReqVals : \E k \in Keys : Delete(rv, k)
    \/ \E rv \in ReqVals : Reset(rv)
    \/ \E rv \in ReqVals : \E k \in Keys, v \in Values : Flash(rv, k, v)
    \/ \E rv \in ReqVals : Flashes(rv)
    \/ \E rv \in ReqVals : FlashesCtx(rv)
    \/ MwFinalize
    \/ MwFlush
    \/ EndRequest
SpecAny == InitAny /\ [][NextAny]_vars

\* Requests served at the same time, their steps interleaved in every order.
InitConc == InitWith([ops |-> 0, reqs |-> 0])
NextConc ==
    \/ \E i \in Keys, c \in ConcInbound, t \in BOOLEAN : CArrive(i, c, t)
    \/ \E i \in Keys : CEnter(i)
    \/ \E i \in Keys, v \in Values : CSet(i, v)
    \/ \E i \in Keys : CList(i)
    \/ \E i \in Keys : CWrite(i)
    \/ \E i \in Keys : CFinalize(i)
    \/ \E i \in Keys : CFlush(i)
    \/ \E i \in Keys : CReturn(i)
    \/ \E i \in Keys : CPanic(i)
SpecConc == InitConc /\ [][NextConc]_vars

\* One request served directly or through the middleware, with other code
\* that sets cookies of its own on the same response.
InitOther == InitWith([ops |-> MaxTemplOps, reqs |-> 1])
NextOther ==
    \/ \E c \in {<<>>, <<ForgedCookie>>} : NewRequest(c)
    \/ OtherCookie
    \/ MwEnter
    \/ \E rv \in ReqVals : \E k \in Keys : Get(rv, k)
    \/ \E rv \in ReqVals : List(rv)
    \/ \E rv \in ReqVals : \E k \in Keys, v \in Values : Set(rv, k, v)
    \/ \E rv \in ReqVals : \E k \in Keys : Delete(rv, k)
    \/ \E rv \in ReqVals : Reset(rv)
    \/ \E rv \in ReqVals : \E k \in Keys, v \in Values : Flash(rv, k, v)
    \/ \E rv \in ReqVals : Flashes(rv)
    \/ \E rv \in ReqVals : FlashesCtx(rv)
    \/ MwFinalize
    \/ MwFlush
    \/ EndRequest
SpecOther == InitOther /\ [][NextOther]_vars

\* Two managers with names and keys of their own, both held by the code that
\* serves a request; UseManager picks the one the next calls go through.
SecondName == "_second"
SecondSecret == "secret2"
Managers ==
    {New(<<>>),
     [New(<<[NoOptions EXCEPT !.Name = SecondName]>>) EXCEPT !.key = SecondSecret]}
UseManager(m) ==
    /\ pc = "serve" /\ mw = "none" /\ ~panicked
    /\ m # mgr
    /\ mgr' = m
    /\ UNCHANGED <<abs, conc, lim, pc, mw, nreq, nops, jar, cookie, ctx, heap, nextAddr,
                   hdr, wStatus, wSent, wBody, mwSession, buf, bufC, panicked, last,
                   tally, prev>>
\* One request without a session cookie, served by code that calls through
\* both managers.
InitTwo == InitWith([ops |-> MaxOps, reqs |-> 1])
NextTwo ==
    \/ NewRequest(<<>>)
    \/ \E m \in Managers : UseManager(m)
    \/ \E k \in Keys : Get("r", k)
    \/ List("r")
    \/ \E k \in Keys, v \in Values : Set("r", k, v)
    \/ \E k \in Keys, v \in Values : Flash("r", k, v)
    \/ Flashes("r")
    \/ EndRequest
SpecTwo == InitTwo /\ [][NextTwo]_vars

\* The option bundles New is given: none, one or two, with a name or none and
\* a max-age that is negative, zero or positive.
OptionSet == [Name : {"", "sid"}, MaxAge : {-2, -1, 0, 3600}, Quiet : {FALSE}]
OptionSeqs == {<<>>} \cup {<<o>> : o \in OptionSet}
                     \cup {<<o1, o2>> : o1 \in OptionSet, o2 \in OptionSet}
\* One request to a manager built with options, served directly or through
\* the middleware; it carries no cookie or one the manager issued.
InitOpts == \E o \in OptionSeqs : InitWith([ops |-> MaxChainOps, reqs |-> 1, opts |-> o])
NextOpts ==
    \/ \E c \in {<<>>, <<Encode(mgr.name, NewSession)>>} : NewRequest(c)
    \/ MwEnter
    \/ \E rv \in ReqVals : \E k \in Keys : Get(rv, k)
    \/ \E rv \in ReqVals : List(rv)
    \/ \E rv \in ReqVals : \E k \in Keys, v \in Values : Set(rv, k, v)
    \/ \E rv \in ReqVals : \E k \in Keys : Delete(rv, k)
    \/ \E rv \in ReqVals : Reset(rv)
    \/ \E rv \in ReqVals : \E k \in Keys, v \in Values : Flash(rv, k, v)
    \/ \E rv \in ReqVals : Flashes(rv)
    \/ \E rv \in ReqVals : FlashesCtx(rv)
    \/ MwFinalize
    \/ MwFlush
    \/ EndRequest
SpecOpts == InitOpts /\ [][NextOpts]_vars

\* ================================================================== claims
\* The session cookie the last call put on the header map, if it put one.
AddedByLastCall ==
    IF Len(hdr) = last.n + 1 /\ hdr[Len(hdr)].Name = mgr.name
    THEN <<hdr[Len(hdr)].Value>> ELSE <<>>
ValidCookie == cookie # <<>> /\ DecodeOk(mgr.name, cookie[1])

\* C1, as stated: after Set(w, r, key, value), Get(r, key) on the same request
\* returns that value and the response carries a Set-Cookie header for the
\* session cookie name, for every value.
C1_SetGetCookieAlways ==
    (last.op = "Set" /\ ~panicked) =>
        /\ GetValue(last.rv, last.key) = last.val
        /\ SessionCookies(hdr) # <<>>

\* C1, amended: after Set(w, r, key, value), Get(r, key) on the same request
\* returns that value; the call adds a Set-Cookie entry for the session cookie
\* name, encoding the record, when the record can be encoded, and adds no entry
\* when it cannot.
C1_SetThenGet ==
    (last.op = "Set" /\ ~panicked) =>
        /\ GetValue(last.rv, last.key) = last.val
        /\ LET s == fromReq(last.rv).s IN
           IF EncodeOk(s)
           THEN AddedByLastCall = <<Encode(mgr.name, s)>>
           ELSE Len(hdr) = last.n
C1_Witness ==
    /\ last.op = "Set" /\ last.val = "x" /\ ~last.hit
    /\ ValidCookie
    /\ GetValue("r", last.key) = "x"
    /\ AddedByLastCall # <<>>

\* The request value a first accessor call of the request would be made on.
FirstCallOn == IF mw = "handler" THEN "r2" ELSE "r"
FreshRequest == pc = "serve" /\ nops = 0 /\ mw \in {"none", "handler"}

\* C2: when request A made mutating calls (Set, Delete, Reset, Flash, Flashes)
\* whose encodes all succeeded and request B presents the last session cookie A
\* emitted, B's first accessor call observes exactly the persistent data and the
\* flash data A's record held at the end of A.
C2_CrossRequestPersistence ==
    (FreshRequest /\ prev.ok /\ prev.commits /\ ~prev.ctxOnly /\ cookie = prev.emitted) =>
        /\ ListValue(FirstCallOn) = prev.s[1].Data.m
        /\ FlashesValue(FirstCallOn) = prev.s[1].Flashes.m

\* C3: through the middleware, while the handler runs the real writer gets no
\* WriteHeader and no Write; and it holds no body byte unless the status has
\* been written to it and the session cookie encoding the middleware's session
\* went out with that status line.
C3_HeadersBeforeBody ==
    /\ mw = "handler" => wStatus = 0 /\ wBody = <<>>
    /\ mw = "flush" => wStatus = 0 /\ wBody = <<>> /\ SessionCookies(hdr) # <<>>
    /\ wBody # <<>> =>
        /\ wStatus # 0
        /\ LastSessionCookie(wSent) = <<Encode(mgr.name, heap[mwSession])>>
C3_Witness ==
    /\ mw = "returned" /\ wBody # <<>> /\ wStatus = StatusInternalServerError
    /\ SessionCookies(wSent) # <<>>

\* C4: a request served through the middleware whose finalize-step encode
\* succeeded is answered with a Set-Cookie header for the session cookie name,
\* also when the handler wrote body bytes and called no accessor.
C4_CookieDelivered ==
    (pc = "done" /\ mw = "returned") =>
        \E i \in 1..Len(wSent) : wSent[i].Name = mgr.name
C4_Witness ==
    /\ pc = "done" /\ mw = "returned" /\ nops = 0 /\ wBody # <<>>
    /\ \E i \in 1..Len(wSent) : wSent[i].Name = mgr.name

\* C5: when the finalize-step encode fails, the middleware still flushes: the
\* captured status code and the whole buffered body reach the real writer.
C5_EncodeFailureStillFlushes ==
    (pc = "done" /\ mw = "failed") => wStatus = bufC /\ buf = <<>>

\* C6: Flashes returns exactly the flash pairs the calls made so far left in
\* the record (the last value per key), and a Flashes call that follows it
\* immediately on the same request returns an empty mapping.
C6_DestroyOnRead ==
    (last.op = "Flashes" /\ ~panicked) =>
        /\ last.retMap = abs.retMap
        /\ FlashesValue(last.rv) = NoEntries
C6_Witness ==
    /\ last.op = "Flashes" /\ cookie = <<>> /\ nops = 3
    /\ last.retMap = [k \in Keys |-> "x"]
    /\ FlashesValue("r") = NoEntries

\* The first accessor call of a request that presents the cookie the last call
\* of the previous request issued.
FirstCallAfter(op, prevOp) ==
    /\ pc = "serve" /\ mw \in {"none", "handler"}
    /\ nops = 1 /\ last.op = op /\ ~panicked
    /\ prev.ok /\ prev.op = prevOp
    /\ prev.issued # <<>> /\ cookie = prev.issued

\* C7: request A calls Flash(k, v); request B presents the cookie A's call
\* issued and calls Flashes: it returns A's flash pairs, k: v among them, and
\* issues a new session cookie; request C presents the cookie B's call issued
\* and calls Flashes: it returns the empty mapping.
C7_FlashAcrossRequests ==
    /\ FirstCallAfter("Flashes", "Flash") =>
        /\ last.retMap[prev.key] = prev.val
        /\ last.retMap = prev.s[1].Flashes.m
        /\ AddedByLastCall # <<>>
    /\ FirstCallAfter("Flashes", "Flashes") => last.retMap = NoEntries
C7_Witness ==
    /\ nreq = 3 /\ FirstCallAfter("Flashes", "Flashes")
    /\ prev.retMap["a"] = "x"
    /\ last.retMap = NoEntries

\* FlashesCtx was the last call, made under the middleware with the context
\* that carries the session attached at entry.
FlashesCtxOnEntry ==
    last.op = "FlashesCtx" /\ last.rv = "r2" /\ last.hit /\ last.rec = mwSession

\* C8: under the middleware FlashesCtx returns a copy of the flash pairs of the
\* session attached at entry and clears that session's flash map in place, so
\* the cookie issued at finalize encodes no flashes; the next request that
\* presents that cookie gets an empty mapping from FlashesCtx.
C8_FlashesCtxClearsLiveRecord ==
    /\ (mw = "handler" /\ nops = 1 /\ FlashesCtxOnEntry) =>
        /\ last.retMap = DecodeCookie.Flashes.m
        /\ heap[mwSession].Flashes.m = NoEntries
    /\ (mw \in {"flush", "returned"} /\ FlashesCtxOnEntry) =>
        LastSessionCookie(hdr)[1].body["Flashes"] = NoEntries
    /\ (mw = "handler" /\ nops = 1 /\ FlashesCtxOnEntry
            /\ prev.ok /\ prev.templ /\ prev.op = "FlashesCtx" /\ prev.onEntry
            /\ cookie = prev.emitted) =>
        last.retMap = NoEntries
C8_Witness ==
    /\ mw = "handler" /\ nops = 1 /\ FlashesCtxOnEntry
    /\ prev.ok /\ prev.templ /\ prev.op = "FlashesCtx" /\ prev.onEntry
    /\ prev.retMap["a"] = "x"
    /\ cookie = prev.emitted
    /\ last.retMap = NoEntries

\* C9: every accessor call of a request observes the effect of every earlier
\* mutating call of that request, whichever request value each call is made on.
C9_ProgramOrder ==
    (last.op # "none" /\ ~panicked) =>
        last.ret = abs.ret /\ last.retMap = abs.retMap

\* C10: an accessor call on a request that has a session attached uses that
\* session without decoding the cookie, and the middleware works on the session
\* that is attached to the handler's request.
C10_OneLiveRecord ==
    /\ (mw = "handler" /\ last.op \notin {"none", "Reset"}) => last.hit
    /\ mw \in {"handler", "flush"} => mwSession = ctx["r2"]

\* C11: within one request fromReq decodes the inbound cookie at most once,
\* however many accessor calls are made on the request.
C11_DecodeAtMostOnce == last.dec <= 1

\* The request in flight carries a cookie the codec rejects.
Rejected == pc = "serve" /\ cookie # <<>> /\ ~DecodeOk(mgr.name, cookie[1])
\* The record holds nothing but what the last call itself stored.
OnlyOwnMutation(s) ==
    \A f \in FieldNames :
        /\ ~s[f].isnil
        /\ \A k \in Keys :
              s[f].m[k] # Nil =>
                  /\ k = last.key /\ s[f].m[k] = last.val
                  /\ last.op = (IF f = "Data" THEN "Set" ELSE "Flash")

\* C12: on a request whose cookie does not decode, nothing panics, the first
\* accessor call returns what it returns without a cookie (absent, an empty
\* mapping), the record it attaches holds only what that call stored, and the
\* record the middleware attaches at entry has two empty maps.
C12_RejectedCookieIsAbsent ==
    Rejected =>
        /\ ~panicked
        /\ (nops = 1 /\ last.op # "none") =>
               /\ last.ret = Nil /\ last.retMap = NoEntries
               /\ ctx[last.rv] # 0 => OnlyOwnMutation(heap[ctx[last.rv]])
        /\ (mw = "handler" /\ last.rv = "r") => heap[mwSession] = NewSession
C12_Witness ==
    /\ Rejected /\ nops = 2 /\ mw = "handler"
    /\ last.op = "List" /\ last.rv = "r2" /\ last.retMap = NoEntries
    /\ last.dec = 1

\* C13: a commit whose encode fails adds no Set-Cookie entry and still leaves
\* the mutated record attached to the request; every call made on the request
\* from then on returns what the sequence of calls so far defines.
C13_EncodeFailureKeepsMutation ==
    ~panicked =>
        /\ last.enc = "fail" =>
               /\ Len(hdr) = last.n
               /\ ctx[last.rv] # 0
               /\ heap[ctx[last.rv]].Data.m = abs.data
               /\ heap[ctx[last.rv]].Flashes.m = abs.flashes
        /\ (tally.fails > 0 /\ last.op # "none") =>
               /\ last.ret = abs.ret /\ last.retMap = abs.retMap
               /\ last.enc = "none" => Len(hdr) = last.n
C13_Witness ==
    /\ tally.fails = 2 /\ hdr = <<>> /\ ~panicked
    /\ last.op = "Get" /\ last.hit /\ last.ret = "fn"
    /\ abs.flashes # NoEntries

\* A step that is a call of the accessor op on request value rv with key k.
IsCall(op, rv, k) ==
    nops' = nops + 1 /\ last'.op = op /\ last'.rv = rv /\ last'.key = k
\* The session cookie a call on rv added: one encoding the record of rv when
\* that record can be encoded, none when it cannot.
CookieIfEncodable(rv) ==
    IF EncodeOk(fromReq(rv).s)'
    THEN AddedByLastCall' = <<Encode(mgr.name, fromReq(rv).s)'>>
    ELSE hdr' = hdr
\* What a Delete step does to the record: it returns what Get returned for the
\* key before, Get returns absent for the key after, and every other key and
\* the flash data are as they were (so nothing changes when the key was absent).
DeleteEffect(rv, k) ==
    /\ last'.ret = GetValue(rv, k)
    /\ GetValue(rv, k)' = Nil
    /\ \A k2 \in Keys \ {k} : GetValue(rv, k2)' = GetValue(rv, k2)
    /\ FlashesValue(rv)' = FlashesValue(rv)

\* C14, as stated: Delete returns the value the key held (absent for an absent
\* key), a following Get returns absent, the rest of the data is unchanged, and
\* the call always adds a session Set-Cookie entry.
C14_DeleteAlwaysCookie ==
    [][\A rv \in ReqVals, k \in Keys :
          IsCall("Delete", rv, k) =>
              DeleteEffect(rv, k) /\ AddedByLastCall' # <<>>]_vars

\* C14, amended: the same effect on the record; the call adds a session
\* Set-Cookie entry encoding the record when the record can be encoded, and
\* adds nothing when it cannot.
C14_DeleteThenGet ==
    [][\A rv \in ReqVals, k \in Keys :
          IsCall("Delete", rv, k) =>
              DeleteEffect(rv, k) /\ CookieIfEncodable(rv)]_vars
C14_Witness ==
    /\ last.op = "Delete" /\ last.ret = "x" /\ ~last.hit /\ ValidCookie
    /\ GetValue(last.rv, last.key) = Nil
    /\ \E k \in Keys : GetValue(last.rv, k) = "x"
    /\ AddedByLastCall # <<>>

\* C15: after Reset, whatever the cookie or the attached record held, Get
\* returns absent for every key, List and Flashes return empty mappings on
\* that request, and the call added a session cookie that encodes a record
\* with both maps empty.
C15_ResetWipes ==
    (last.op = "Reset" /\ ~panicked) =>
        /\ \A k \in Keys : GetValue(last.rv, k) = Nil
        /\ ListValue(last.rv) = NoEntries
        /\ FlashesValue(last.rv) = NoEntries
        /\ AddedByLastCall # <<>>
        /\ DecodeOk(mgr.name, AddedByLastCall[1])
        /\ Decode(AddedByLastCall[1]) = NewSession
C15_Witness ==
    /\ last.op = "Reset" /\ ValidCookie
    /\ cookie[1].body.Data["a"] = "x" /\ cookie[1].body.Flashes["b"] = "x"
    /\ tally.fails = 1 /\ tally.commits = 2
    /\ AddedByLastCall # <<>>

\* The persistent data of the inbound cookie holds key k.
InCookie(k) ==
    /\ ValidCookie
    /\ "Data" \in DOMAIN cookie[1].body
    /\ cookie[1].body.Data[k] # Nil

\* C16: Get returns absent, and raises nothing, for every key that is neither
\* in the persistent data of the request's cookie nor set earlier in the
\* request.  Step by step: when a request starts, Get would return a value
\* only for the keys of its cookie; afterwards a key for which Get returned
\* absent gets a value only by a Set of that key; and a Get call returns the
\* value Get stood to return, without a panic and without touching the headers.
C16_AbsentKeyIsNil ==
    [][\A k \in Keys :
          /\ (nreq' = nreq + 1 /\ GetValue("r", k)' # Nil) => InCookie(k)'
          /\ (nreq' = nreq /\ GetValue("r", k) = Nil /\ GetValue("r", k)' # Nil)
                 => IsCall("Set", "r", k)
          /\ IsCall("Get", "r", k) =>
                 /\ last'.ret = GetValue("r", k)
                 /\ ~panicked'
                 /\ hdr' = hdr]_vars
C16_Witness ==
    /\ last.op = "Get" /\ last.key = "a" /\ last.ret = Nil /\ ~panicked
    /\ cookie = <<>> /\ nops = 3
    /\ GetValue("r", "b") = "x"

BothMaps(s) == ~s.Data.isnil /\ ~s.Flashes.isnil

\* C18: every record an accessor produces (the one fromReq yields for each
\* request value) and every record attached to a request or held by the
\* middleware has both maps non-nil, and no write panics; every session cookie
\* put on the response is again one whose record has both maps non-nil, so the
\* cookies the manager issues are cookies for which this holds.
C18_MapsNeverNil ==
    /\ ~panicked
    /\ \A a \in DOMAIN heap : BothMaps(heap[a])
    /\ pc = "serve" => \A rv \in DOMAIN ctx : BothMaps(fromReq(rv).s)
    /\ \A i \in 1..Len(hdr) :
          hdr[i].Name = mgr.name =>
              /\ <<hdr[i].Value>> \in Inbound
              /\ BothMaps(Decode(hdr[i].Value))
C18_Witness ==
    /\ pc = "serve" /\ mw = "handler" /\ ValidCookie /\ nops = 2
    /\ last.op = "Flashes" /\ last.rv = "r2" /\ last.dec = 1
    /\ BothMaps(heap[mwSession]) /\ BothMaps(fromReq("r").s)
    /\ Len(hdr) = 1

\* What request i has to read back: the persistent data of its own cookie,
\* with its own key as it had set it by then.
OwnView(i) ==
    [DecodeFrom(creq[i].cookie).Data.m EXCEPT
        ![i] = IF creq[i].seen # Nil THEN creq[i].seen ELSE @]

\* C19: with requests served at the same time, each setting its own key, what
\* a request reads back is its own cookie's data and its own key, and never a
\* key another request set; the cookies it is sent hold no more than that.
C19_NoCrossRequestBleed ==
    \A i \in Keys :
        /\ creq[i].got # <<>> => creq[i].got[1] = OwnView(i)
        /\ \A n \in 1..Len(creq[i].hdr) : \A k \in Keys \ {i} :
              Decode(creq[i].hdr[n]).Data.m[k] = DecodeFrom(creq[i].cookie).Data.m[k]
C19_Witness ==
    /\ \A i \in Keys :
          /\ creq[i].pc = "handler" /\ creq[i].seen = "x"
          /\ creq[i].got = <<OwnView(i)>>
    /\ creq["a"].templ /\ ~creq["b"].templ
    /\ creq["a"].cookie = <<>> /\ creq["b"].cookie = <<>>

\* The request holds a buffer: it took one and has not put it back.
Holds(i) == creq[i].templ /\ creq[i].pc \in {"handler", "flush"}
\* No buffer is held by two requests or held while in the pool; a held buffer
\* holds exactly what its request's handler wrote; a buffer is put back only
\* after its content went to the request's real writer.
BufferExclusive ==
    \A i \in Keys :
        /\ Holds(i) =>
              /\ creq[i].buf \notin pool
              /\ bufs[creq[i].buf] = creq[i].wrote
              /\ \A j \in Keys \ {i} : Holds(j) => creq[j].buf # creq[i].buf
        /\ creq[i].released => creq[i].body = creq[i].wrote

\* C20: buffers are exclusive in the sense above, and the body a client
\* receives is exactly the bytes its own handler wrote.
C20_BufferPoolExclusive ==
    /\ BufferExclusive
    /\ \A i \in Keys : creq[i].pc = "done" => creq[i].body = creq[i].wrote

\* C21: a request that went through the middleware has put its buffer back
\* when it is over, however it ended: after the flush, after an encode failure
\* at the finalize step, after a panic of the handler.
C21_BufferAlwaysReturned ==
    \A i \in Keys :
        (creq[i].templ /\ creq[i].buf # 0 /\ creq[i].pc \in {"done", "panicked"}) =>
            creq[i].released

\* The status the handler asked for: the code of its last WriteHeader call,
\* 200 when it made none.
HandlerStatus == IF tally.wh = 0 THEN StatusOK ELSE tally.wh

\* C22: while the handler runs under the middleware nothing reaches the real
\* writer; the flush writes the status once, to a writer that has no status
\* and no body yet: 200 when the handler never called WriteHeader, otherwise
\* the code it passed (the last one); the body follows; nothing changes the
\* status afterwards.
C22_FlushStatus ==
    [][nreq' = nreq =>
          /\ mw = "handler" => wStatus' = wStatus /\ wBody' = wBody
          /\ (mw = "flush" /\ mw' = "returned") =>
                 /\ wStatus = 0 /\ wBody = <<>>
                 /\ wStatus' = HandlerStatus
                 /\ wBody' = buf
          /\ mw = "returned" => wStatus' = wStatus /\ wBody' = wBody]_vars
C22_Witness ==
    /\ mw = "returned" /\ tally.wh = StatusInternalServerError
    /\ wStatus = StatusInternalServerError /\ wBody # <<>>
    /\ SessionCookies(wSent) # <<>>

\* Sequence p is an initial part of sequence q.
IsPrefix(p, q) == Len(p) <= Len(q) /\ \A i \in 1..Len(p) : q[i] = p[i]

\* C23: no step of a request removes or changes a Set-Cookie entry that is on
\* the response, whoever added it: entries are only ever added after the ones
\* there; the session cookie a commit added stays on the response with the
\* cookies other code set before and after it.
C23_CommitKeepsOtherHeaders ==
    [][nreq' = nreq =>
          /\ IsPrefix(hdr, hdr')
          /\ last'.enc = "ok" =>
                 /\ Len(hdr') > last'.n
                 /\ hdr'[last'.n + 1].Name = mgr.name
          /\ Len(OtherCookies(hdr')) >= Len(OtherCookies(hdr))]_vars
C23_Witness ==
    /\ pc = "done" /\ mw = "none" /\ Len(wSent) = 3
    /\ wSent[1].Name = OtherCookieName
    /\ wSent[2].Name = mgr.name /\ wSent[3].Name = mgr.name

\* The option bundle in force: the last one given, or the zero Options.
Configured == IF Len(lim.opts) = 0 THEN NoOptions ELSE lim.opts[Len(lim.opts)]
ConfiguredName == IF Configured.Name = "" THEN "_session" ELSE Configured.Name

\* C24: every session cookie put on the response, by a commit or by the
\* middleware, has the configured name (the default one when none was
\* configured), Path "/", HttpOnly and Secure.
C24_CookieAttributes ==
    \A i \in 1..Len(hdr) :
        /\ hdr[i].Name = ConfiguredName
        /\ hdr[i].Path = "/"
        /\ hdr[i].HttpOnly
        /\ hdr[i].Secure
C24_Witness ==
    /\ mw = "flush" /\ Len(hdr) = 2 /\ Len(lim.opts) = 2
    /\ lim.opts[1].Name = "" /\ lim.opts[2].Name = "sid"
    /\ hdr[1].Name = "sid" /\ hdr[2].Name = "sid"

\* C25: the Max-Age of every session cookie is the configured max-age when
\* that is positive, and one year when it is 0.
C25_CookieMaxAgeConfigured ==
    \A i \in 1..Len(hdr) :
        /\ Configured.MaxAge > 0 =>
               hdr[i].MaxAge = Configured.MaxAge /\ hdr[i].ExpiresIn = Configured.MaxAge
        /\ Configured.MaxAge = 0 =>
               hdr[i].MaxAge = 31536000 /\ hdr[i].ExpiresIn = 31536000

\* C26: New gives the codec one year for max-age 0, no expiry (0) for every
\* negative max-age and the value itself for a positive one, taking the last
\* option bundle given.
C26_MaxAgeNormalized ==
    mgr.maxAge = (IF Configured.MaxAge = 0 THEN 31536000
                  ELSE IF Configured.MaxAge < 0 THEN 0
                  ELSE Configured.MaxAge)

\* C27: a request whose path is excluded reaches the handler with no session
\* decoded or attached; FlashesCtx there returns the empty mapping; when the
\* handler makes no committing call the response carries no session cookie, so
\* the client keeps the one it presented; and a later request on a path that is
\* not excluded, presenting that same cookie, gets its flashes from FlashesCtx.
SkippedUntouched == mw = "skipped" /\ tally.commits = 0
AfterSkipped ==
    /\ mw = "handler" /\ nops = 1 /\ FlashesCtxOnEntry
    /\ prev.skipped /\ prev.op = "FlashesCtx" /\ ~prev.commits
    /\ cookie = prev.presented /\ ValidCookie
C28_FlashesCtxWithoutSession ==
    [][\A rv \in ReqVals :
          (IsCall("FlashesCtx", rv, "a") /\ rv \in DOMAIN ctx /\ ctx[rv] = 0) =>
              /\ last'.retMap = NoEntries /\ ~last'.retNil
              /\ ~panicked'
              /\ last'.dec = last.dec
              /\ UNCHANGED <<ctx, heap, nextAddr, hdr, wStatus, wSent, wBody, jar>>]_vars
C28_Witness ==
    /\ last.op = "FlashesCtx" /\ ~last.hit /\ mw = "none"
    /\ ValidCookie /\ cookie[1].body["Flashes"]["a"] = "x"
    /\ last.retMap = NoEntries /\ ~last.retNil
    /\ ctx["r"] = 0 /\ hdr = <<>>

\* C29: whatever accessor calls the handler made under the middleware, the
\* session cookie the middleware sets at finalize encodes the persistent data
\* and the flash data that List and Flashes on the handler's request would
\* return at that point, also after a Reset.
C29_FinalizeEncodesObserved ==
    mw = "flush" =>
        /\ LastSessionCookie(hdr) # <<>>
        /\ LastSessionCookie(hdr)[1].body["Data"] = ListValue("r2")
        /\ LastSessionCookie(hdr)[1].body["Flashes"] = FlashesValue("r2")

\* C30: two managers with different cookie names and keys serve one request
\* that carries no session cookie.  The first call made through a manager
\* finds nothing the other manager stored: Get returns absent, List and Flashes
\* return empty mappings, and after a Set or Flash the record holds, and the
\* cookie added under that manager's name encodes, only the pair that call
\* stored.
C30_ManagersIndependent ==
    [][(cookie = <<>> /\ nops' = nops + 1 /\ mgr.name \notin last.by /\ ~panicked') =>
          /\ last'.ret = Nil
          /\ last'.retMap = NoEntries
          /\ (ctx["r"] # 0 => OnlyOwnMutation(heap[ctx["r"]]))'
          /\ last'.enc = "ok" =>
                /\ hdr'[last'.n + 1].Name = mgr.name
                /\ hdr'[last'.n + 1].Value = (Encode(mgr.name, heap[ctx["r"]]))']_vars

\* The previous request read flashes that its cookie held: its only call was
\* Flashes on a request without a record, or FlashesCtx on the record the
\* middleware attached; and the request in flight made a read of the same kind
\* as its first call.
PrevRead ==
    /\ prev.ok /\ prev.first /\ prev.retMap # NoEntries
    /\ \/ prev.op = "Flashes" /\ prev.fresh
       \/ prev.op = "FlashesCtx" /\ prev.templ /\ prev.onEntry
ReadNow ==
    /\ pc = "serve" /\ mw \in {"none", "handler"} /\ nops = 1 /\ ~panicked
    /\ \/ last.op = "Flashes" /\ ~last.hit
       \/ FlashesCtxOnEntry
\* The cookie that records the previous request's read: the one its Flashes
\* call issued, or the one the middleware set after FlashesCtx.
ReadCookie == IF prev.op = "Flashes" THEN prev.issued ELSE prev.emitted

\* C31, as stated: a flash value that one request's Flashes or FlashesCtx call
\* returned is returned to no other request, whatever cookie that request
\* presents.
C31_FlashReadAtMostOnce ==
    (ReadNow /\ PrevRead) =>
        \A k \in Keys : prev.retMap[k] # Nil => last.retMap[k] = Nil

\* C31, amended: a request that presents the cookie recording the read gets an
\* empty mapping from its read; a request that presents again the cookie the
\* reading request presented gets the same flashes once more.
C31_FlashReadOncePerCookie ==
    /\ (ReadNow /\ PrevRead /\ cookie = ReadCookie) => last.retMap = NoEntries
    /\ (ReadNow /\ PrevRead /\ cookie = prev.presented) => last.retMap = prev.retMap
C31_Witness ==
    /\ ReadNow /\ PrevRead /\ nreq = 3
    /\ cookie = ReadCookie
    /\ prev.retMap["a"] = "x" /\ prev.op = "Flashes"
    /\ last.op = "Flashes" /\ last.retMap = NoEntries

\* C32: through the wrapper the client gets the status and body the handler
\* would have produced on the real writer: once the handler has called
\* WriteHeader or Write the status to send is fixed (the first WriteHeader
\* wins, a Write before any WriteHeader fixes 200), and the flush sends that
\* status and the bytes written, in order.
StatusFixed == mw = "handler" /\ (tally.wh # 0 \/ buf # <<>>)
C32_ProxyAsDirect ==
    [][nreq' = nreq =>
          /\ (StatusFixed /\ mw' = "handler") => bufC' = bufC
          /\ (mw = "handler" /\ mw' = "handler" /\ ~StatusFixed) =>
                 bufC' = (IF tally'.wh # 0 THEN tally'.wh ELSE StatusOK)
          /\ (mw = "flush" /\ mw' = "returned") =>
                 wStatus' = bufC /\ wBody' = buf]_vars

\* What a call on rv leaves as it was: the persistent data but for key k, or
\* all of it; the flash data but for key k, or all of it.
DataKeptBut(rv, k) == \A j \in Keys \ {k} : ListValue(rv)'[j] = ListValue(rv)[j]
DataKept(rv) == ListValue(rv)' = ListValue(rv)
FlashesKeptBut(rv, k) ==
    \A j \in Keys \ {k} : FlashesValue(rv)'[j] = FlashesValue(rv)[j]
FlashesKept(rv) == FlashesValue(rv)' = FlashesValue(rv)

\* C33: a Set or Delete call changes at most the named key of the persistent
\* data and nothing of the flash data; a Flash call changes at most the named
\* key of the flash data and nothing of the persistent data; Flashes, and
\* FlashesCtx on a context that carries a record, leave the flash data empty
\* and the persistent data as it was.
C33_FrameEffect ==
    [][\A rv \in ReqVals, k \in Keys :
          /\ (IsCall("Set", rv, k) /\ ~panicked') =>
                 /\ ListValue(rv)'[k] = last'.val
                 /\ DataKeptBut(rv, k) /\ FlashesKept(rv)
          /\ IsCall("Delete", rv, k) =>
                 /\ ListValue(rv)'[k] = Nil
                 /\ DataKeptBut(rv, k) /\ FlashesKept(rv)
          /\ (IsCall("Flash", rv, k) /\ ~panicked') =>
                 /\ FlashesValue(rv)'[k] = last'.val
                 /\ FlashesKeptBut(rv, k) /\ DataKept(rv)
          /\ IsCall("Flashes", rv, k) =>
                 FlashesValue(rv)' = NoEntries /\ DataKept(rv)
          /\ IsCall("FlashesCtx", rv, k) =>
                 /\ ctx[rv] # 0 => FlashesValue(rv)' = NoEntries
                 /\ ctx[rv] = 0 => FlashesKept(rv)
                 /\ DataKept(rv)]_vars
C33_Witness ==
    /\ last.op = "Flash" /\ last.key = "a" /\ last.val = "x" /\ last.hit /\ ~panicked
    /\ nops = 3 /\ ValidCookie
    /\ FlashesValue("r") = [k \in Keys |-> "x"]
    /\ ListValue("r") = [NoEntries EXCEPT !["b"] = "x"]
    /\ cookie[1].body["Flashes"] = [NoEntries EXCEPT !["b"] = "x"]
====
